---- MODULE Spec2Model ----
(***************************************************************************)
(* Bingo card generator and batched PDF export (src/js/index-generate.js), *)
(* the bingo game with a tombola of the same file, and the original game   *)
(* of src/js/index.js.                                                     *)
(*                                                                         *)
(* The page is a single-threaded event loop: every action below is one     *)
(* run-to-completion segment of a handler, from the event that starts it   *)
(* to its return or to its next await.                                     *)
(***************************************************************************)
EXTENDS Integers, Sequences, FiniteSets, TLC

(***************************************************************************)
(* Bounds of the model.                                                    *)
(***************************************************************************)
\* Math.random() is observed at this many equally spaced levels k/RandLevels.
RandLevels == 16
\* A random stream advances by a fixed stride in 1..MaxRandStep per call.
MaxRandStep == 2
\* At most this many cards fail (rasterize or place) during one export.
MaxFailures == 2
\* Rejected draws of one getRandomNumbers call are counted up to this number.
MaxRejected == 3
\* The tombola holds the numbers 1..PoolSize (the program's pool is 1..75).
PoolSize == 2
\* At most this many draws have a timeout pending at once.
MaxInFlight == 2

(***************************************************************************)
(* Program constants.                                                      *)
(***************************************************************************)
DisplayLimit == 50
BatchSize == 10
PageHeight == 297
PageWidth == 210
Margin == 10
CardImageWidth == 90
CardImageHeight == 130
HorizontalAdvance == 100
VerticalAdvance == 140

VARIABLES
    allCardsData,    \* let allCardsData: the generated card records
    fileName,        \* let fileName: base name of the exported file
    cardContainer,   \* children of #cardContainer: the displayed cards
    limitMessage,    \* #cardLimitMessage: style.display and the counts shown
    answered,        \* what the two prompt() calls of the last generateCards returned
    ex,              \* exportToPDF: the locals of the running (or last) call
    ui,              \* the loading overlay, its texts and the export button
    hideTimers,      \* pending setTimeout(hideLoading) callbacks
    alertOpen,       \* an alert() dialog is open and blocks the event loop
    sampler,         \* getRandomNumbers: the arguments and locals of a call
    tb,              \* the tombola page: globals, table, buttons, pending timers
    orig             \* the page of src/js/index.js: lastNumbers and the table

genVars == <<allCardsData, fileName, cardContainer, limitMessage, answered>>
exportVars == <<ex, ui, hideTimers, alertOpen>>
gameVars == <<tb, orig>>
vars == <<allCardsData, fileName, cardContainer, limitMessage, answered,
          ex, ui, hideTimers, alertOpen, sampler, tb, orig>>

(***************************************************************************)
(* Values.  A card cell holds a number or a string; both are wrapped so    *)
(* that cells of either kind can be compared.                              *)
(***************************************************************************)
Num(n) == [isNum |-> TRUE, num |-> n, str |-> ""]
Str(s) == [isNum |-> FALSE, num |-> 0, str |-> s]

FreeMarker == Str(" ")

\* Array.prototype.includes on an array of numbers.
Includes(numbers, num) == \E k \in 1..Len(numbers) : numbers[k] = num

(***************************************************************************)
(* Math.random().  A call returns t / RandLevels for the stream position   *)
(* t and moves the stream on by its stride; the stream (start, stride) is  *)
(* an input of the handler that draws from it.                             *)
(***************************************************************************)
Tapes == [start : 0..(RandLevels - 1), step : 1..MaxRandStep]

\* Math.floor(Math.random() * (max - min + 1)) + min, with Math.random() = t/RandLevels
RandomInRange(min, max, t) == ((t * (max - min + 1)) \div RandLevels) + min

NextRandom(t, step) == (t + step) % RandLevels

(***************************************************************************)
(* getRandomNumbers(min, max, count): rejection sampling.  The stream is   *)
(* periodic with period at most RandLevels, so RandLevels rejections in a  *)
(* row mean the loop never ends on this stream (ok = FALSE).               *)
(***************************************************************************)
RECURSIVE RandLoop(_, _, _, _, _, _, _)
RandLoop(min, max, count, numbers, t, step, misses) ==
    IF Len(numbers) >= count
    THEN [ok |-> TRUE, numbers |-> numbers, t |-> t]
    ELSE IF misses >= RandLevels
    THEN [ok |-> FALSE, numbers |-> numbers, t |-> t]
    ELSE LET num == RandomInRange(min, max, t)
             t2  == NextRandom(t, step)
         IN  IF ~Includes(numbers, num)
             THEN RandLoop(min, max, count, Append(numbers, num), t2, step, 0)
             ELSE RandLoop(min, max, count, numbers, t2, step, misses + 1)

\* The loop without the includes() test: every drawn number is pushed.
RECURSIVE RandLoopNoDedup(_, _, _, _, _, _)
RandLoopNoDedup(min, max, count, numbers, t, step) ==
    IF Len(numbers) >= count
    THEN [ok |-> TRUE, numbers |-> numbers, t |-> t]
    ELSE RandLoopNoDedup(min, max, count,
                         Append(numbers, RandomInRange(min, max, t)),
                         NextRandom(t, step), step)

GetRandomNumbersNoDedup(min, max, count, t, step) ==
    RandLoopNoDedup(min, max, count, <<>>, t, step)

GetRandomNumbers(min, max, count, t, step) ==
    RandLoop(min, max, count, <<>>, t, step, 0)

(***************************************************************************)
(* getRandomNumbers step by step: one action per call and one per          *)
(* iteration of the loop, the iteration given the level Math.random()      *)
(* returns in it.  sampler.rejected counts the draws the includes() test   *)
(* turned down, up to MaxRejected.                                         *)
(***************************************************************************)
IdleSampler ==
    [pc |-> "idle", min |-> 0, max |-> 0, count |-> 0, numbers |-> <<>>,
     rejected |-> 0]

\* while (numbers.length <= count)
SamplerTestInclusive(s) ==
    IF Len(s.numbers) <= s.count
    THEN [s EXCEPT !.pc = "loop"]
    ELSE [s EXCEPT !.pc = "returned"]

\* while (numbers.length < count): another iteration, or return numbers.
SamplerTest(s) ==
    IF Len(s.numbers) < s.count
    THEN [s EXCEPT !.pc = "loop"]
    ELSE [s EXCEPT !.pc = "returned"]

\* The body of the loop for Math.random() = level / RandLevels.
SamplerBody(s, level) ==
    LET num == RandomInRange(s.min, s.max, level)
    IN  IF ~Includes(s.numbers, num)
        THEN [s EXCEPT !.numbers = Append(@, num)]
        ELSE [s EXCEPT !.rejected = IF @ < MaxRejected THEN @ + 1 ELSE @]

(***************************************************************************)
(* generateBingoCard(bingoName, serial).  A column is an array indexed     *)
(* from 0: the letter, then the five drawn numbers.  The timestamp is      *)
(* display text taken from the clock and is not modelled.                  *)
(***************************************************************************)
\* ["B"].concat(numbers)
Column(letter, numbers) ==
    [p \in 0..Len(numbers) |-> IF p = 0 THEN Str(letter) ELSE Num(numbers[p])]

\* columns.N[3] = " "
SetFreeCell(columns) ==
    [columns EXCEPT !.N = [@ EXCEPT ![3] = FreeMarker]]

GenerateBingoCard(bingoName, serial, t, step) ==
    LET b == GetRandomNumbers(1, 15, 5, t, step)
        i == GetRandomNumbers(16, 30, 5, b.t, step)
        n == GetRandomNumbers(31, 45, 5, i.t, step)
        g == GetRandomNumbers(46, 60, 5, n.t, step)
        o == GetRandomNumbers(61, 75, 5, g.t, step)
        columns == [B |-> Column("B", b.numbers),
                    I |-> Column("I", i.numbers),
                    N |-> Column("N", n.numbers),
                    G |-> Column("G", g.numbers),
                    O |-> Column("O", o.numbers)]
    IN  [ok   |-> b.ok /\ i.ok /\ n.ok /\ g.ok /\ o.ok,
         t    |-> o.t,
         card |-> [columns   |-> IF b.ok /\ i.ok /\ n.ok /\ g.ok /\ o.ok
                                 THEN SetFreeCell(columns) ELSE columns,
                   bingoName |-> bingoName,
                   serial    |-> serial]]

(***************************************************************************)
(* prompt() and parseInt().  An answer is cancelled (null) or a text; the  *)
(* text of the count answer is a sequence of characters.                   *)
(***************************************************************************)
Cancelled == [cancelled |-> TRUE, text |-> <<>>]
Typed(chars) == [cancelled |-> FALSE, text |-> chars]

CancelledName == [cancelled |-> TRUE, text |-> ""]
TypedName(s) == [cancelled |-> FALSE, text |-> s]

DigitChars == {"0", "1", "2", "3", "4", "5", "6", "7", "8", "9"}

DigitValue(c) ==
    CASE c = "0" -> 0 [] c = "1" -> 1 [] c = "2" -> 2 [] c = "3" -> 3
      [] c = "4" -> 4 [] c = "5" -> 5 [] c = "6" -> 6 [] c = "7" -> 7
      [] c = "8" -> 8 [] c = "9" -> 9

NaN == [nan |-> TRUE, val |-> 0]
Int32(v) == [nan |-> FALSE, val |-> v]

RECURSIVE SkipSpaces(_)
SkipSpaces(s) ==
    IF Len(s) > 0 /\ Head(s) = " " THEN SkipSpaces(Tail(s)) ELSE s

\* The value of the longest prefix of digits of s, and how many digits it has.
RECURSIVE ParseDigits(_, _, _)
ParseDigits(s, acc, n) ==
    IF Len(s) > 0 /\ Head(s) \in DigitChars
    THEN ParseDigits(Tail(s), 10 * acc + DigitValue(Head(s)), n + 1)
    ELSE [val |-> acc, digits |-> n]

\* parseInt(answer): null becomes the text "null"; leading blanks are skipped,
\* one sign is read, then digits up to the first other character.
ParseInt(answer) ==
    IF answer.cancelled THEN NaN
    ELSE LET s    == SkipSpaces(answer.text)
             neg  == Len(s) > 0 /\ Head(s) = "-"
             sgn  == Len(s) > 0 /\ Head(s) \in {"-", "+"}
             body == IF sgn THEN Tail(s) ELSE s
             d    == ParseDigits(body, 0, 0)
         IN  IF d.digits = 0 THEN NaN
             ELSE Int32(IF neg THEN 0 - d.val ELSE d.val)

\* A string is truthy when it is not null and not empty.
TruthyName(answer) == ~answer.cancelled /\ answer.text # ""

\* A number is truthy when it is neither NaN nor 0.
TruthyNumber(n) == ~n.nan /\ n.val # 0

(***************************************************************************)
(* generateCards()                                                         *)
(***************************************************************************)
\* if (!numCards || !bingoNamePrompt || numCards <= 0) return;
InvalidInput(numCards, bingoNamePrompt) ==
    \/ ~TruthyNumber(numCards)
    \/ ~TruthyName(bingoNamePrompt)
    \/ numCards.val <= 0

\* for (c = 0; c < numCards; c++) allCardsData.push(generateBingoCard(name, c + 1))
RECURSIVE GenerateLoop(_, _, _, _, _, _)
GenerateLoop(cards, c, numCards, bingoName, t, step) ==
    IF c >= numCards
    THEN [ok |-> TRUE, cards |-> cards]
    ELSE LET g == GenerateBingoCard(bingoName, c + 1, t, step)
         IN  IF ~g.ok
             THEN [ok |-> FALSE, cards |-> cards]
             ELSE GenerateLoop(Append(cards, g.card), c + 1, numCards,
                               bingoName, g.t, step)

\* Math.min without its first argument: the second, whatever the first is.
MinIsSecond(a, b) == b

\* Math.min
Min(a, b) == IF a < b THEN a ELSE b

\* The loop started at serial 0: generateBingoCard(name, c).
GenerateLoopSerialFromZero(cards, c, numCards, bingoName, t, step) ==
    LET r == GenerateLoop(cards, c, numCards, bingoName, t, step)
    IN  [r EXCEPT !.cards = [k \in 1..Len(r.cards) |->
                                [r.cards[k] EXCEPT !.serial = k - 1]]]

GenerateAll(cards, c, numCards, bingoName, t, step) ==
    GenerateLoop(cards, c, numCards, bingoName, t, step)

(***************************************************************************)
(* The prompt answers and random streams the specifications draw from.     *)
(***************************************************************************)
GenCountAnswers ==
    { Cancelled, Typed(<<>>), Typed(<<"0">>), Typed(<<"1">>), Typed(<<"2">>),
      Typed(<<"3">>), Typed(<<"-", "2">>), Typed(<<"a">>), Typed(<<" ", "4">>),
      Typed(<<"3", ".", "7">>), Typed(<<"+", "2">>), Typed(<<"2", "x">>) }

GenNameAnswers == { CancelledName, TypedName(""), TypedName("A"), TypedName("B") }

ExportCountAnswers == { Typed(<<"0">>), Typed(<<"3">>), Typed(<<"1", "2">>) }

ExportNameAnswers == { TypedName("A") }

ExportTapes == { [start |-> 0, step |-> 1] }

OwnCountAnswers == { Typed(<<"0">>), Typed(<<"2">>), Typed(<<"3">>) }

OwnNameAnswers == { CancelledName, TypedName("A"), TypedName("B") }

LimitCountAnswers ==
    { Typed(<<"0">>), Typed(<<"2">>), Typed(<<"3">>), Typed(<<"5", "0">>),
      Typed(<<"5", "1">>) }

LimitNameAnswers == { CancelledName, TypedName("A") }

LimitTapes == { tape \in Tapes : tape.step = 1 }

\* Five cards: one more than a page holds.
PageCountAnswers == { Typed(<<"1">>), Typed(<<"5">>) }

\* The card counts the answers above parse to.
UsedCounts ==
    { ParseInt(a).val : a \in { b \in GenCountAnswers \cup ExportCountAnswers \cup OwnCountAnswers :
                                  TruthyNumber(ParseInt(b)) /\ ParseInt(b).val > 0 } }

UsedNames ==
    { a.text : a \in { b \in GenNameAnswers \cup ExportNameAnswers \cup OwnNameAnswers :
                          TruthyName(b) } }

\* The generation loop of generateCards, tabulated over those inputs.
GeneratedCardsOf(numCards, bingoName, tape) ==
    GenerateAll(<<>>, 0, numCards, bingoName, tape.start, tape.step)

\* The table is compared with itself so that it is computed once, not per use.
GeneratedCards ==
    LET f == [numCards \in UsedCounts, bingoName \in UsedNames, tape \in Tapes |->
                 GeneratedCardsOf(numCards, bingoName, tape)]
    IN  CHOOSE g \in {f, [x \in {} |-> x]} : g = f

\* The same for the runs of LimitCountAnswers, which reach the display limit.
LimitCards ==
    LET f == [numCards \in {50, 51}, bingoName \in {"A"}, tape \in LimitTapes |->
                 GeneratedCardsOf(numCards, bingoName, tape)]
    IN  CHOOSE g \in {f, [x \in {} |-> x]} : g = f

\* The same for the five-card run of PageCountAnswers.
PageCards ==
    LET f == [numCards \in {5}, bingoName \in {"A"}, tape \in ExportTapes |->
                 GeneratedCardsOf(numCards, bingoName, tape)]
    IN  CHOOSE g \in {f, [x \in {} |-> x]} : g = f

CardsFor(numCards, bingoName, tape) ==
    IF <<numCards, bingoName, tape>> \in DOMAIN LimitCards
    THEN LimitCards[numCards, bingoName, tape]
    ELSE IF <<numCards, bingoName, tape>> \in DOMAIN PageCards
    THEN PageCards[numCards, bingoName, tape]
    ELSE GeneratedCards[numCards, bingoName, tape]

GenerateCards(countAnswer, nameAnswer, tape) ==
    LET numCards == ParseInt(countAnswer)
        newName  == IF TruthyName(nameAnswer) THEN nameAnswer.text ELSE "Bingo"
    IN  /\ answered' = [count |-> countAnswer, name |-> nameAnswer]
        /\ IF InvalidInput(numCards, nameAnswer)
           THEN /\ cardContainer' = <<>>
                /\ allCardsData' = <<>>
                /\ fileName' = newName
                /\ UNCHANGED limitMessage
           ELSE LET g == CardsFor(numCards.val, nameAnswer.text, tape)
                    displayLimit == Min(DisplayLimit, numCards.val)
                IN  /\ g.ok
                    /\ allCardsData' = g.cards
                    /\ fileName' = newName
                    /\ cardContainer' = SubSeq(g.cards, 1, displayLimit)
                    /\ limitMessage' =
                           IF numCards.val > displayLimit
                           THEN [display |-> "block", total |-> numCards.val,
                                 shown |-> displayLimit]
                           ELSE [limitMessage EXCEPT !.display = "none"]

(***************************************************************************)
(* updateProgress(percentage, text).  A percentage is the exact fraction   *)
(* num/den; the text is kept as the checkpoint it announces.               *)
(***************************************************************************)
Pct(num, den) == [num |-> num, den |-> den]

PctLeq(p, q) == p.num * q.den <= q.num * p.den

UpdateProgress(e, u, percentage, text) ==
    [e |-> [e EXCEPT !.progress = Append(@, [pct |-> percentage, text |-> text])],
     u |-> [u EXCEPT !.progressFill = percentage, !.loadingSubtext = text]]

(***************************************************************************)
(* Errors.  A thrown value either carries a message (a sequence of words)  *)
(* or is a value without one.                                               *)
(***************************************************************************)
ErrorWith(words) == [hasMessage |-> TRUE, message |-> words]
ValueWithoutMessage == [hasMessage |-> FALSE, message |-> <<>>]
NoError == [hasMessage |-> FALSE, message |-> <<"none">>]

\* createCardElement(undefined): destructuring undefined throws a TypeError.
DestructureTypeError == ErrorWith(<<"Cannot", "destructure", "property">>)

\* What html2canvas, toDataURL or addImage throw for a card that fails.
CardError == ErrorWith(<<"html2canvas", "failed">>)

\* What doc.save may throw.
SaveErrors ==
    { ErrorWith(<<"Invalid", "string", "length">>),
      ErrorWith(<<"Out", "of", "memory">>),
      ErrorWith(<<"Network", "error">>),
      ValueWithoutMessage }

\* String.prototype.includes, on words.
MessageIncludes(message, words) ==
    \E k \in 0..(Len(message) - Len(words)) :
        \A j \in 1..Len(words) : message[k + j] = words[j]

(***************************************************************************)
(* showLoading, showSuccess, showError, hideLoading                        *)
(***************************************************************************)
\* showLoading without exportBtn.disabled = true.
ShowLoadingButtonEnabled(u) ==
    [u EXCEPT !.spinner = "block", !.successIcon = "none",
              !.loadingText = "Generando PDF...", !.loadingSubtext = "wait",
              !.progressFill = Pct(0, 1),
              !.successMessage = "none", !.errorMessage = "none",
              !.overlay = "flex"]

ShowLoading(u) ==
    [u EXCEPT !.spinner = "block", !.successIcon = "none",
              !.loadingText = "Generando PDF...", !.loadingSubtext = "wait",
              !.progressFill = Pct(0, 1),
              !.successMessage = "none", !.errorMessage = "none",
              !.exportBtnDisabled = TRUE, !.overlay = "flex"]

\* showSuccess up to its setTimeout; the caller schedules the timer.
ShowSuccess(e, u) ==
    UpdateProgress(e,
                   [u EXCEPT !.spinner = "none", !.successIcon = "block",
                             !.loadingText = "Completado",
                             !.successMessage = "block"],
                   Pct(100, 1), "success")

ShowError(u, message) ==
    [u EXCEPT !.spinner = "none", !.loadingText = "Error",
              !.loadingSubtext = message, !.errorMessage = "block"]

HideLoading(u) ==
    [u EXCEPT !.overlay = "none", !.exportBtnDisabled = FALSE]

(***************************************************************************)
(* exportToPDF().  ex holds the locals of the call; ex.pc is where the     *)
(* call is suspended, or how it ended; ex.batch records allCardsData as it *)
(* was when the call started.                                              *)
(***************************************************************************)
NoDoc == [pages |-> 0, images |-> <<>>, saved |-> <<>>]
NoContainer == [created |-> 0, inBody |-> FALSE, children |-> <<>>]

IdleExport ==
    [pc |-> "idle", doc |-> NoDoc, x |-> 0, y |-> 0, pageCount |-> 0,
     tempContainer |-> NoContainer, totalCards |-> 0, batchStart |-> 0, i |-> 0,
     progress |-> <<>>, rendered |-> <<>>, warnings |-> <<>>, caught |-> NoError,
     batch |-> <<>>]

BatchEnd(e) == Min(e.batchStart + BatchSize, e.totalCards)

\* catch (error): classify and showError; error.message.includes throws when the
\* value has no message, and then the call ends rejected before showError.
Catch(e, u, error) ==
    IF ~error.hasMessage
    THEN [e |-> [e EXCEPT !.pc = "rejected", !.caught = error], u |-> u, timers |-> 0]
    ELSE LET errorMessage ==
                 IF \/ MessageIncludes(error.message, <<"string", "length">>)
                    \/ MessageIncludes(error.message, <<"memory">>)
                 THEN "too many cards"
                 ELSE "generic"
         IN  [e |-> [e EXCEPT !.pc = "failed", !.caught = error],
              u |-> ShowError(u, errorMessage), timers |-> 1]

\* Top of the inner loop for card i: createCardElement, appendChild, and the
\* call of html2canvas at which the function suspends.
StartCard(e, u, cards) ==
    IF e.i + 1 > Len(cards)
    THEN Catch(e, u, DestructureTypeError)
    ELSE LET card == cards[e.i + 1]
         IN  [e |-> [e EXCEPT !.pc = "rasterize",
                              !.tempContainer.children = Append(@, card),
                              !.rendered = Append(@, [index |-> e.i, card |-> card])],
              u |-> u, timers |-> 0]

\* The inner loop bounded by totalCards instead of batchEnd: the next batch is
\* entered without the pause.
InnerLoopPastBatchEnd(e, u, cards) ==
    IF e.i < e.totalCards
    THEN StartCard(e, u, cards)
    ELSE [e |-> [e EXCEPT !.pc = "batchYield"], u |-> u, timers |-> 0]

\* for (i = batchStart; i < batchEnd; i++): next card, or the pause after the batch.
InnerLoop(e, u, cards) ==
    IF e.i < BatchEnd(e)
    THEN StartCard(e, u, cards)
    ELSE [e |-> [e EXCEPT !.pc = "batchYield"], u |-> u, timers |-> 0]

\* After the last batch: remove the container, report, pause before saving.
AfterBatches(e, u) ==
    LET r == UpdateProgress([e EXCEPT !.tempContainer.inBody = FALSE], u,
                            Pct(90, 1), "finalize")
    IN  [e |-> [r.e EXCEPT !.pc = "finalizeYield"], u |-> r.u, timers |-> 0]

\* The batch report computed from batchEnd instead of batchStart.
BatchLoopReportsBatchEnd(e, u, cards) ==
    IF e.batchStart < e.totalCards
    THEN LET r == UpdateProgress(e, u,
                      Pct(10 * e.totalCards + 70 * BatchEnd(e), e.totalCards),
                      "batch")
         IN  InnerLoop([r.e EXCEPT !.i = e.batchStart], r.u, cards)
    ELSE AfterBatches(e, u)

\* for (batchStart = ...; batchStart < totalCards; batchStart += batchSize)
BatchLoop(e, u, cards) ==
    IF e.batchStart < e.totalCards
    THEN LET r == UpdateProgress(e, u,
                      Pct(10 * e.totalCards + 70 * e.batchStart, e.totalCards),
                      "batch")
         IN  InnerLoop([r.e EXCEPT !.i = e.batchStart], r.u, cards)
    ELSE AfterBatches(e, u)

\* The page check, left out: the image is added wherever the cursor is.
PlaceNoPageCheck(e) == e

\* if (y + 130 > pageHeight) { doc.addPage(); pageCount++; y = 10; x = 10; }
PageCheck(e) ==
    IF e.y + CardImageHeight > PageHeight
    THEN [e EXCEPT !.doc.pages = @ + 1, !.pageCount = @ + 1,
                   !.y = Margin, !.x = Margin]
    ELSE e

\* The row wrap tested before x is advanced.
AddImageWrapBeforeAdvance(e) ==
    LET placed == [e EXCEPT !.doc.images =
                       Append(@, [index |-> e.i, page |-> e.doc.pages,
                                  x |-> e.x, y |-> e.y])]
    IN  IF placed.x + CardImageWidth > PageWidth
        THEN [placed EXCEPT !.x = Margin, !.y = @ + VerticalAdvance]
        ELSE [placed EXCEPT !.x = @ + HorizontalAdvance]

\* doc.addImage(imgData, "PNG", x, y, 90, 130); x += 100; wrap to the next row.
AddImage(e) ==
    LET placed == [e EXCEPT !.doc.images =
                       Append(@, [index |-> e.i, page |-> e.doc.pages,
                                  x |-> e.x, y |-> e.y])]
        moved  == [placed EXCEPT !.x = @ + HorizontalAdvance]
    IN  IF moved.x + CardImageWidth > PageWidth
        THEN [moved EXCEPT !.x = Margin, !.y = @ + VerticalAdvance]
        ELSE moved

\* console.warn in catch (cardError)
Warn(e, stage) ==
    [e EXCEPT !.warnings = Append(@, [index |-> e.i, stage |-> stage])]

\* The per-card try without its catch: the failure leaves the card loop.
CardBodyUncaught(e, u, outcome) ==
    IF outcome = "ok"
    THEN [e |-> AddImage(PageCheck(e)), u |-> u, timers |-> 0, thrown |-> FALSE]
    ELSE LET c == Catch(e, u, CardError)
         IN  [e |-> c.e, u |-> c.u, timers |-> c.timers, thrown |-> TRUE]

\* The body of try { ... } catch (cardError) for one card, from the point where
\* html2canvas settles.
CardBody(e, u, outcome) ==
    [e |-> CASE outcome = "ok"         -> AddImage(PageCheck(e))
             [] outcome = "rasterFail" -> Warn(e, "rasterize")
             [] outcome = "placeFail"  -> Warn(PageCheck(e), "place"),
     u |-> u, timers |-> 0, thrown |-> FALSE]

CardOutcomes == {"ok", "rasterFail", "placeFail"}

\* The card element left in the container.
RemoveChildSkipped(e) == e

\* tempContainer.removeChild(card): the card appended last.
RemoveChild(e) ==
    [e EXCEPT !.tempContainer.children = SubSeq(@, 1, Len(@) - 1)]

\* First segment of the call, up to the first await.
ExportStart(u, cards) ==
    LET u1 == ShowLoading(u)
        e0 == [IdleExport EXCEPT
                  !.doc = [pages |-> 1, images |-> <<>>, saved |-> <<>>],
                  !.x = Margin, !.y = Margin, !.pageCount = 1]
        r1 == UpdateProgress(e0, u1, Pct(5, 1), "init")
        r2 == UpdateProgress(r1.e, r1.u, Pct(10, 1), "config")
        e1 == [r2.e EXCEPT !.tempContainer =
                              [created |-> 1, inBody |-> TRUE, children |-> <<>>],
                           !.totalCards = Len(cards),
                           !.batch = cards]
    IN  BatchLoop(e1, r2.u, cards)

\* The empty-input test made after showLoading instead of before it.
ExportToPDFLateCheck ==
    /\ ~alertOpen
    /\ ~ui.exportBtnDisabled
    /\ IF Len(allCardsData) = 0
       THEN /\ alertOpen' = TRUE
            /\ ui' = ShowLoading(ui)
            /\ UNCHANGED <<ex, hideTimers>>
       ELSE LET r == ExportStart(ui, allCardsData)
            IN  /\ ex' = r.e
                /\ ui' = r.u
                /\ hideTimers' = hideTimers + r.timers
                /\ UNCHANGED alertOpen
    /\ UNCHANGED <<genVars, sampler, gameVars>>

\* Click on the export button: exportToPDF() up to its return or first await.
ExportToPDF ==
    /\ ~alertOpen
    /\ ~ui.exportBtnDisabled
    /\ IF Len(allCardsData) = 0
       THEN /\ alertOpen' = TRUE
            /\ UNCHANGED <<ex, ui, hideTimers>>
       ELSE LET r == ExportStart(ui, allCardsData)
            IN  /\ ex' = r.e
                /\ ui' = r.u
                /\ hideTimers' = hideTimers + r.timers
                /\ UNCHANGED alertOpen
    /\ UNCHANGED <<genVars, sampler, gameVars>>

\* html2canvas settles for card i: the rest of the card, then on to the next
\* await.
CardSettled(outcome) ==
    /\ ~alertOpen
    /\ ex.pc = "rasterize"
    /\ outcome # "ok" => Len(ex.warnings) < MaxFailures
    /\ LET b    == CardBody(ex, ui, outcome)
           e2   == [RemoveChild(b.e) EXCEPT !.i = @ + 1]
           r    == IF b.thrown THEN b ELSE InnerLoop(e2, b.u, allCardsData)
       IN  /\ ex' = r.e
           /\ ui' = r.u
           /\ hideTimers' = hideTimers + r.timers
    /\ UNCHANGED <<genVars, alertOpen, sampler, gameVars>>

\* The 100 ms pause after a batch ends: cleanupMemory, then the next batch.
BatchTimer ==
    /\ ~alertOpen
    /\ ex.pc = "batchYield"
    /\ LET r == BatchLoop([ex EXCEPT !.batchStart = @ + BatchSize], ui, allCardsData)
       IN  /\ ex' = r.e
           /\ ui' = r.u
           /\ hideTimers' = hideTimers + r.timers
    /\ UNCHANGED <<genVars, alertOpen, sampler, gameVars>>

\* `${fileName}_bingo_cards_${totalCards}tarjetas.pdf`
PdfFileName(name, totalCards) ==
    [base |-> name, infix |-> "_bingo_cards_", count |-> totalCards,
     suffix |-> "tarjetas.pdf"]

\* The 200 ms pause before saving ends: doc.save, then success or the catch.
FinalizeTimer(saveOutcome) ==
    /\ ~alertOpen
    /\ ex.pc = "finalizeYield"
    /\ LET r == IF saveOutcome = NoError
                THEN LET saved == [ex EXCEPT !.doc.saved =
                                      Append(@, PdfFileName(fileName, ex.totalCards))]
                         r1 == UpdateProgress(saved, ui, Pct(100, 1), "done")
                         r2 == ShowSuccess(r1.e, r1.u)
                     IN  [e |-> [r2.e EXCEPT !.pc = "succeeded"], u |-> r2.u,
                          timers |-> 1]
                ELSE Catch(ex, ui, saveOutcome)
       IN  /\ ex' = r.e
           /\ ui' = r.u
           /\ hideTimers' = hideTimers + r.timers
    /\ UNCHANGED <<genVars, alertOpen, sampler, gameVars>>

\* setTimeout(() => hideLoading(), ...) fires.
HideLoadingTimer ==
    /\ ~alertOpen
    /\ hideTimers > 0
    /\ hideTimers' = hideTimers - 1
    /\ ui' = HideLoading(ui)
    /\ UNCHANGED <<genVars, ex, alertOpen, sampler, gameVars>>

(***************************************************************************)
(* The bingo game with a tombola (second part of src/js/index-generate.js) *)
(* and the original game without one (src/js/index.js).  Each is a page of *)
(* its own; tb and orig hold the globals and the classes of the table      *)
(* cells of the page, and are NoTombola / NoOriginal where the page is not *)
(* the one that is loaded.                                                 *)
(*                                                                         *)
(* Timers.  A draw sets a 1000 ms timeout whose callback sets a 2000 ms    *)
(* timeout; auto-draw is a 10000 ms interval.  Timers fire in the order of *)
(* their due times, so the callbacks of one kind run first in, first out,  *)
(* and an interval tick finds no draw timeout pending: every draw that was *)
(* started before or at the previous tick was due at least 7 s earlier.    *)
(* alert() and confirm() block the event loop until they are answered, so  *)
(* a handler that shows one is still a single step.                        *)
(***************************************************************************)
\* let currentNumber = null
Null == 0

\* Array.from({ length: 75 }, (_, i) => i + 1), over the model's pool
AllNumbers == [k \in 1..PoolSize |-> k]

\* Array.prototype.indexOf: the first 0-based position of x, or -1
IndexOf(arr, x) ==
    IF \E k \in 1..Len(arr) : arr[k] = x
    THEN (CHOOSE k \in 1..Len(arr) :
              arr[k] = x /\ \A j \in 1..(k - 1) : arr[j] # x) - 1
    ELSE -1

\* Array.prototype.splice(start, 1): a negative start counts from the end
Splice(arr, start) ==
    LET from == IF start >= 0 THEN start
                ELSE IF Len(arr) + start < 0 THEN 0 ELSE Len(arr) + start
    IN  IF from >= Len(arr) THEN arr
        ELSE SubSeq(arr, 1, from) \o SubSeq(arr, from + 2, Len(arr))

\* updateHistory keeps the newest entries first and drops past the limit:
\* 5 entries in the tombola version, 3 in the original one.
HistoryLimit == 5
OriginalHistoryLimit == 3

UpdateHistoryNoLimit(lastNumbers, number, limit) == <<number>> \o lastNumbers

UpdateHistory(lastNumbers, number, limit) ==
    LET unshifted == <<number>> \o lastNumbers
    IN  IF Len(unshifted) > limit
        THEN SubSeq(unshifted, 1, Len(unshifted) - 1)
        ELSE unshifted

RemoveHistory(lastNumbers, number) ==
    SelectSeq(lastNumbers, LAMBDA n : n # number)

NoTombola == [loaded |-> FALSE]

\* The tombola page after DOMContentLoaded.  drawTimeouts holds the
\* selectedNumber of every pending 1000 ms callback, oldest first.
\* closeTimeouts holds, for every pending 2000 ms callback, the number of
\* 1000 ms callbacks that were pending when it was set and have not run yet:
\* those are due before it.  processed lists the numbers processDrawnNumber
\* was given since the game began (page load or reset).
LoadedTombola ==
    [loaded |-> TRUE,
     lastNumbers |-> <<>>,
     availableNumbers |-> AllNumbers,
     currentNumber |-> Null,
     autoDrawInterval |-> FALSE,
     isAutoDrawActive |-> FALSE,
     isAutoDrawPaused |-> FALSE,
     marked |-> {},
     autoMarked |-> {},
     pattern |-> {},
     btnDisabled |-> FALSE,
     btnText |-> "Sacar Numero",
     modal |-> "none",
     numbersLeft |-> PoolSize,
     autoDrawBtn |-> "inline-block",
     pauseBtn |-> "none",
     resumeBtn |-> "none",
     drawTimeouts |-> <<>>,
     closeTimeouts |-> <<>>,
     processed |-> <<>>]

UpdateAutoDrawButtons(t) ==
    IF t.isAutoDrawActive
    THEN IF t.isAutoDrawPaused
         THEN [t EXCEPT !.autoDrawBtn = "none", !.pauseBtn = "none",
                        !.resumeBtn = "inline-block"]
         ELSE [t EXCEPT !.autoDrawBtn = "none", !.pauseBtn = "inline-block",
                        !.resumeBtn = "none"]
    ELSE [t EXCEPT !.autoDrawBtn = "inline-block", !.pauseBtn = "none",
                   !.resumeBtn = "none"]

UpdateNumbersLeft(t) == [t EXCEPT !.numbersLeft = Len(t.availableNumbers)]

StopAutoDraw(t) ==
    IF ~t.isAutoDrawActive THEN t
    ELSE LET stopped == [t EXCEPT !.isAutoDrawActive = FALSE,
                                  !.isAutoDrawPaused = FALSE,
                                  !.autoDrawInterval = FALSE]
         IN  [UpdateAutoDrawButtons(stopped) EXCEPT
                  !.btnDisabled = FALSE, !.btnText = "Sacar Numero"]

\* The machine is shown, the winning number hidden.
ShowTombolaModal(t) == [t EXCEPT !.modal = "machine"]

ShowWinningNumber(t) == [t EXCEPT !.modal = "winning"]

\* opacity 0 at once; display none follows after the 300 ms fade
HideTombolaModal(t) == [t EXCEPT !.modal = "none"]

\* drawNumber up to its return; randomIndex is Math.floor(Math.random() *
\* availableNumbers.length).
DrawNumber(t, randomIndex) ==
    IF Len(t.availableNumbers) = 0
    THEN [StopAutoDraw(t) EXCEPT !.btnDisabled = TRUE,
                                 !.btnText = "Juego Completo"]
    ELSE LET busy == IF ~t.isAutoDrawActive
                     THEN [t EXCEPT !.btnDisabled = TRUE,
                                    !.btnText = "Sorteando"]
                     ELSE t
             selectedNumber == t.availableNumbers[randomIndex + 1]
         IN  [ShowTombolaModal(busy) EXCEPT
                  !.drawTimeouts = Append(@, selectedNumber)]

MarkNumberInTable(t, number) ==
    [t EXCEPT !.marked = @ \cup {number}, !.autoMarked = @ \cup {number}]

ProcessDrawnNumber(t, selectedNumber) ==
    LET spliced == [t EXCEPT
                        !.availableNumbers =
                            Splice(@, IndexOf(@, selectedNumber)),
                        !.currentNumber = selectedNumber,
                        !.processed = Append(@, selectedNumber)]
        marked == MarkNumberInTable(spliced, selectedNumber)
    IN  UpdateNumbersLeft(
            [marked EXCEPT !.lastNumbers =
                               UpdateHistory(@, selectedNumber, HistoryLimit)])

\* The callback of the 1000 ms timeout of drawNumber.
DrawTimeoutBody(t) ==
    LET selectedNumber == Head(t.drawTimeouts)
        popped == [t EXCEPT !.drawTimeouts = Tail(@)]
        older == [k \in 1..Len(t.closeTimeouts) |->
                      IF t.closeTimeouts[k] > 0 THEN t.closeTimeouts[k] - 1
                      ELSE 0]
    IN  [ShowWinningNumber(ProcessDrawnNumber(popped, selectedNumber)) EXCEPT
             !.closeTimeouts = Append(older, Len(popped.drawTimeouts))]

\* The callback of the 2000 ms timeout.
CloseTimeoutAlwaysRestores(t) ==
    [HideTombolaModal(t) EXCEPT !.closeTimeouts = Tail(@),
                                !.btnDisabled = FALSE,
                                !.btnText = "Sacar Numero"]

CloseTimeoutBody(t) ==
    LET hidden == [HideTombolaModal(t) EXCEPT !.closeTimeouts = Tail(@)]
    IN  IF ~t.isAutoDrawActive
        THEN [hidden EXCEPT !.btnDisabled = FALSE, !.btnText = "Sacar Numero"]
        ELSE hidden

\* startAutoDraw; the interval callback is IntervalBody.
StartAutoDraw(t) ==
    IF t.isAutoDrawActive THEN t
    ELSE IF Len(t.availableNumbers) = 0 THEN t
    ELSE LET active == [t EXCEPT !.isAutoDrawActive = TRUE,
                                 !.isAutoDrawPaused = FALSE]
         IN  [UpdateAutoDrawButtons(active) EXCEPT
                  !.btnDisabled = TRUE,
                  !.btnText = "Sorteo Automatico Activo",
                  !.autoDrawInterval = TRUE]

IntervalBody(t, randomIndex) ==
    IF ~t.isAutoDrawPaused /\ Len(t.availableNumbers) > 0
    THEN DrawNumber(t, randomIndex)
    ELSE t

PauseAutoDraw(t) ==
    IF ~t.isAutoDrawActive \/ t.isAutoDrawPaused THEN t
    ELSE UpdateAutoDrawButtons([t EXCEPT !.isAutoDrawPaused = TRUE])

ResumeAutoDraw(t) ==
    IF ~t.isAutoDrawActive \/ ~t.isAutoDrawPaused THEN t
    ELSE UpdateAutoDrawButtons([t EXCEPT !.isAutoDrawPaused = FALSE])

\* cleanTable of the tombola version: .marked:not(.auto-marked) and .pattern
CleanTableClearsAll(t) == [t EXCEPT !.marked = {}, !.pattern = {}]

CleanTable(t) ==
    [t EXCEPT !.marked = {n \in @ : n \in t.autoMarked}, !.pattern = {}]

\* resetGame; confirmed is what confirm() returned.  The pending timeouts of
\* a draw are not cleared.
ResetGameKeepsAutoMarks(t, confirmed) ==
    IF ~confirmed THEN t
    ELSE UpdateNumbersLeft(
             [StopAutoDraw(t) EXCEPT
                  !.marked = {},
                  !.lastNumbers = <<>>,
                  !.availableNumbers = AllNumbers,
                  !.currentNumber = Null,
                  !.pattern = {},
                  !.btnDisabled = FALSE,
                  !.btnText = "Sacar Numero",
                  !.processed = <<>>])

ResetGame(t, confirmed) ==
    IF ~confirmed THEN t
    ELSE UpdateNumbersLeft(
             [StopAutoDraw(t) EXCEPT
                  !.marked = {},
                  !.autoMarked = {n \in @ : n \notin t.marked},
                  !.lastNumbers = <<>>,
                  !.availableNumbers = AllNumbers,
                  !.currentNumber = Null,
                  !.pattern = {},
                  !.btnDisabled = FALSE,
                  !.btnText = "Sacar Numero",
                  !.processed = <<>>])

\* The click listener of a number cell of the tombola version.
NumberCellClickedNoGuard(t, number) ==
    IF number \in t.marked
    THEN [t EXCEPT !.marked = @ \ {number},
                   !.lastNumbers = RemoveHistory(@, number)]
    ELSE [t EXCEPT !.marked = @ \cup {number},
                   !.lastNumbers = UpdateHistory(@, number, HistoryLimit)]

NumberCellClicked(t, number) ==
    IF number \in t.autoMarked THEN t
    ELSE IF number \in t.marked
    THEN [t EXCEPT !.marked = @ \ {number},
                   !.lastNumbers = RemoveHistory(@, number)]
    ELSE [t EXCEPT !.marked = @ \cup {number},
                   !.lastNumbers = UpdateHistory(@, number, HistoryLimit)]

\* The click listener of a cell of the pattern card: classList.toggle.
PatternCellClicked(t, cell) ==
    [t EXCEPT !.pattern = IF cell \in @ THEN @ \ {cell} ELSE @ \cup {cell}]

NoOriginal == [loaded |-> FALSE]

\* The page of index.js after its script ran.
LoadedOriginal ==
    [loaded |-> TRUE, lastNumbers |-> <<>>, marked |-> {}, pattern |-> {}]

\* The click listener of a number cell of index.js.
OriginalNumberClicked(o, number) ==
    IF number \in o.marked
    THEN [o EXCEPT !.marked = @ \ {number},
                   !.lastNumbers = RemoveHistory(@, number)]
    ELSE [o EXCEPT !.marked = @ \cup {number},
                   !.lastNumbers =
                       UpdateHistory(@, number, OriginalHistoryLimit)]

\* cleanTable of index.js, for the clean button and the end of a celebration
OriginalCleanTable(o) ==
    [o EXCEPT !.marked = {}, !.lastNumbers = <<>>, !.pattern = {}]

(***************************************************************************)
(* The page: generate and export buttons, timers and library callbacks.    *)
(***************************************************************************)
InitUi ==
    [overlay |-> "none", exportBtnDisabled |-> FALSE, spinner |-> "block",
     successIcon |-> "none", loadingText |-> "", loadingSubtext |-> "",
     progressFill |-> Pct(0, 1), successMessage |-> "none", errorMessage |-> "none"]

InitGenerator ==
    /\ allCardsData = <<>>
    /\ fileName = ""
    /\ cardContainer = <<>>
    /\ limitMessage = [display |-> "none", total |-> 0, shown |-> 0]
    /\ answered = [count |-> Cancelled, name |-> CancelledName]
    /\ ex = IdleExport
    /\ ui = InitUi
    /\ hideTimers = 0
    /\ alertOpen = FALSE
    /\ sampler = IdleSampler

Init ==
    /\ InitGenerator
    /\ tb = NoTombola
    /\ orig = NoOriginal

GenerateClick ==
    /\ ~alertOpen
    /\ \E countAnswer \in ExportCountAnswers, nameAnswer \in ExportNameAnswers,
          tape \in ExportTapes :
           GenerateCards(countAnswer, nameAnswer, tape)
    /\ UNCHANGED <<exportVars, sampler, gameVars>>

Html2CanvasSettles == \E outcome \in CardOutcomes : CardSettled(outcome)

SaveTimer == \E saveOutcome \in SaveErrors \cup {NoError} : FinalizeTimer(saveOutcome)

\* The user closes the alert; exportToPDF returns.
DismissAlert ==
    /\ alertOpen
    /\ alertOpen' = FALSE
    /\ UNCHANGED <<genVars, ex, ui, hideTimers, sampler, gameVars>>

\* While an alert is open no other handler runs: every other action waits for
\* ~alertOpen.
Next ==
    \/ GenerateClick
    \/ ExportToPDF
    \/ Html2CanvasSettles
    \/ BatchTimer
    \/ SaveTimer
    \/ HideLoadingTimer
    \/ DismissAlert

Spec == Init /\ [][Next]_vars

(***************************************************************************)
(* The generator on its own: every prompt answer of GenCountAnswers and    *)
(* GenNameAnswers, every random stream of Tapes.                           *)
(***************************************************************************)
\* html2canvas settles every call, and the timers of the export run once
\* they are due.
SpecExportFair ==
    /\ Init
    /\ [][Next]_vars
    /\ WF_vars(Html2CanvasSettles)
    /\ WF_vars(BatchTimer)
    /\ WF_vars(SaveTimer)
    /\ WF_vars(HideLoadingTimer)

GenerateClickGen ==
    /\ ~alertOpen
    /\ \E countAnswer \in GenCountAnswers, nameAnswer \in GenNameAnswers,
          tape \in Tapes :
           GenerateCards(countAnswer, nameAnswer, tape)
    /\ UNCHANGED <<exportVars, sampler, gameVars>>

NextGen == GenerateClickGen

SpecGen == Init /\ [][NextGen]_vars

(***************************************************************************)
(* The export with generateCards called between its segments under two     *)
(* labels, with valid and invalid answers.                                 *)
(***************************************************************************)
GenerateClickOwn ==
    /\ ~alertOpen
    /\ \E countAnswer \in OwnCountAnswers, nameAnswer \in OwnNameAnswers,
          tape \in ExportTapes :
           GenerateCards(countAnswer, nameAnswer, tape)
    /\ UNCHANGED <<exportVars, sampler, gameVars>>

NextOwn ==
    \/ GenerateClickOwn
    \/ ExportToPDF
    \/ Html2CanvasSettles
    \/ BatchTimer
    \/ SaveTimer
    \/ HideLoadingTimer
    \/ DismissAlert

SpecOwn == Init /\ [][NextOwn]_vars

(***************************************************************************)
(* The generator with runs below, at and above the display limit.          *)
(***************************************************************************)
GenerateClickLimit ==
    /\ ~alertOpen
    /\ \E countAnswer \in LimitCountAnswers, nameAnswer \in LimitNameAnswers,
          tape \in LimitTapes :
           GenerateCards(countAnswer, nameAnswer, tape)
    /\ UNCHANGED <<exportVars, sampler, gameVars>>

NextLimit == GenerateClickLimit

SpecLimit == Init /\ [][NextLimit]_vars

\* Exports of one card and of five cards.
GenerateClickPages ==
    /\ ~alertOpen
    /\ \E countAnswer \in PageCountAnswers, nameAnswer \in ExportNameAnswers,
          tape \in ExportTapes :
           GenerateCards(countAnswer, nameAnswer, tape)
    /\ UNCHANGED <<exportVars, sampler, gameVars>>

NextPages ==
    \/ GenerateClickPages
    \/ ExportToPDF
    \/ Html2CanvasSettles
    \/ BatchTimer
    \/ SaveTimer
    \/ HideLoadingTimer
    \/ DismissAlert

SpecPages == Init /\ [][NextPages]_vars

(***************************************************************************)
(* getRandomNumbers on its own, called with the arguments below and with   *)
(* every level of Math.random() in every iteration.  A level that stays    *)
(* possible is eventually drawn.                                           *)
(***************************************************************************)
SamplerMins == {1, 16}

\* max - min + 1
SamplerSpans == 1..3

SamplerCounts == 0..4

GetRandomNumbersCall(min, max, count) ==
    /\ sampler.pc \in {"idle", "returned"}
    /\ sampler' = SamplerTest([pc |-> "loop", min |-> min, max |-> max,
                               count |-> count, numbers |-> <<>>, rejected |-> 0])
    /\ UNCHANGED <<genVars, exportVars, gameVars>>

GetRandomNumbersDraw(level) ==
    /\ sampler.pc = "loop"
    /\ sampler' = SamplerTest(SamplerBody(sampler, level))
    /\ UNCHANGED <<genVars, exportVars, gameVars>>

SamplerCalled ==
    \E min \in SamplerMins, span \in SamplerSpans, count \in SamplerCounts :
        GetRandomNumbersCall(min, min + span - 1, count)

SamplerDraws == \E level \in 0..(RandLevels - 1) : GetRandomNumbersDraw(level)

NextRand == SamplerCalled \/ SamplerDraws

SpecRand ==
    /\ Init
    /\ [][NextRand]_vars
    /\ \A level \in 0..(RandLevels - 1) : WF_vars(GetRandomNumbersDraw(level))

(***************************************************************************)
(* The game pages: clicks and timer callbacks.                             *)
(***************************************************************************)
\* Number cells and pattern cells the user clicks: one cell where the
\* auto-draw is exercised, four where the history is.
ClickedNumbers == {1}
ClickedPatternCells == {0}
HistoryClicked == {1, 2, 16, 75}

\* One of the two game pages is loaded; the generator page is not in use.
InitGames ==
    /\ InitGenerator
    /\ \/ tb = LoadedTombola /\ orig = NoOriginal
       \/ tb = NoTombola /\ orig = LoadedOriginal

InitTombola ==
    /\ InitGenerator
    /\ tb = LoadedTombola
    /\ orig = NoOriginal

\* Math.floor(Math.random() * availableNumbers.length)
RandomIndices(t) ==
    IF Len(t.availableNumbers) = 0 THEN {0}
    ELSE 0..(Len(t.availableNumbers) - 1)

DrawsInFlight(t) == Len(t.drawTimeouts) + Len(t.closeTimeouts)

\* The click listener of tombolaBtn; a disabled button gets no click.
TombolaClick ==
    /\ tb.loaded
    /\ ~tb.btnDisabled
    /\ Len(tb.availableNumbers) > 0 => DrawsInFlight(tb) < MaxInFlight
    /\ \E randomIndex \in RandomIndices(tb) :
           tb' = IF ~tb.isAutoDrawActive THEN DrawNumber(tb, randomIndex)
                 ELSE tb
    /\ UNCHANGED <<genVars, exportVars, sampler, orig>>

DrawTimeout ==
    /\ tb.loaded
    /\ Len(tb.drawTimeouts) > 0
    /\ tb' = DrawTimeoutBody(tb)
    /\ UNCHANGED <<genVars, exportVars, sampler, orig>>

CloseTimeout ==
    /\ tb.loaded
    /\ Len(tb.closeTimeouts) > 0
    /\ Head(tb.closeTimeouts) = 0
    /\ tb' = CloseTimeoutBody(tb)
    /\ UNCHANGED <<genVars, exportVars, sampler, orig>>

IntervalTick ==
    /\ tb.loaded
    /\ tb.autoDrawInterval
    /\ DrawsInFlight(tb) = 0
    /\ \E randomIndex \in RandomIndices(tb) :
           tb' = IntervalBody(tb, randomIndex)
    /\ UNCHANGED <<genVars, exportVars, sampler, orig>>

\* The three auto-draw handlers test the flags themselves and are run in
\* every state.
AutoDrawClick ==
    /\ tb.loaded
    /\ tb' = StartAutoDraw(tb)
    /\ UNCHANGED <<genVars, exportVars, sampler, orig>>

PauseClick ==
    /\ tb.loaded
    /\ tb' = PauseAutoDraw(tb)
    /\ UNCHANGED <<genVars, exportVars, sampler, orig>>

ResumeClick ==
    /\ tb.loaded
    /\ tb' = ResumeAutoDraw(tb)
    /\ UNCHANGED <<genVars, exportVars, sampler, orig>>

CleanClick ==
    /\ tb.loaded
    /\ tb' = CleanTable(tb)
    /\ UNCHANGED <<genVars, exportVars, sampler, orig>>

ResetGameClick(confirmed) ==
    /\ tb.loaded
    /\ tb' = ResetGame(tb, confirmed)
    /\ UNCHANGED <<genVars, exportVars, sampler, orig>>

ResetClick == \E confirmed \in BOOLEAN : ResetGameClick(confirmed)

NumberCellClick(number) ==
    /\ tb.loaded
    /\ tb' = NumberCellClicked(tb, number)
    /\ UNCHANGED <<genVars, exportVars, sampler, orig>>

NumberClick == \E number \in ClickedNumbers : NumberCellClick(number)

HistoryNumberClick == \E number \in HistoryClicked : NumberCellClick(number)

PatternClick ==
    /\ tb.loaded
    /\ \E cell \in ClickedPatternCells : tb' = PatternCellClicked(tb, cell)
    /\ UNCHANGED <<genVars, exportVars, sampler, orig>>

OriginalNumberClick ==
    /\ orig.loaded
    /\ \E number \in HistoryClicked :
           orig' = OriginalNumberClicked(orig, number)
    /\ UNCHANGED <<genVars, exportVars, sampler, tb>>

OriginalPatternClick ==
    /\ orig.loaded
    /\ \E cell \in ClickedPatternCells :
           orig' = PatternCellClicked(orig, cell)
    /\ UNCHANGED <<genVars, exportVars, sampler, tb>>

OriginalCleanClick ==
    /\ orig.loaded
    /\ orig' = OriginalCleanTable(orig)
    /\ UNCHANGED <<genVars, exportVars, sampler, tb>>

NextTombola ==
    \/ TombolaClick
    \/ DrawTimeout
    \/ CloseTimeout
    \/ IntervalTick
    \/ AutoDrawClick
    \/ PauseClick
    \/ ResumeClick
    \/ CleanClick
    \/ ResetClick
    \/ NumberClick
    \/ PatternClick

SpecTombola == InitTombola /\ [][NextTombola]_vars

\* Marks, unmarks, manual draws and clears, on either page.
NextHistory ==
    \/ TombolaClick
    \/ DrawTimeout
    \/ CloseTimeout
    \/ HistoryNumberClick
    \/ CleanClick
    \/ OriginalNumberClick
    \/ OriginalPatternClick
    \/ OriginalCleanClick

SpecHistory == InitGames /\ [][NextHistory]_vars

\* Timer callbacks run once they are due; clicks may never come.
SpecTombolaFair ==
    /\ InitTombola
    /\ [][NextTombola]_vars
    /\ WF_vars(DrawTimeout)
    /\ WF_vars(CloseTimeout)
    /\ WF_vars(IntervalTick)

(***************************************************************************)
(* Properties of the generator.                                            *)
(***************************************************************************)
\* A count that parses to a positive integer, and a label that was typed and
\* is not empty.
PositiveCount(countAnswer) ==
    ~ParseInt(countAnswer).nan /\ ParseInt(countAnswer).val > 0

NonEmptyLabel(nameAnswer) == ~nameAnswer.cancelled /\ nameAnswer.text # ""

\* C1: after generateCards was given a count > 0 and a non-empty label,
\* allCardsData holds exactly count records, their serials are 1, 2, ..., count
\* in that order, and every record carries the entered label.
C1_CountRecordsSerialsInOrder ==
    (PositiveCount(answered.count) /\ NonEmptyLabel(answered.name)) =>
        /\ Len(allCardsData) = ParseInt(answered.count).val
        /\ \A k \in 1..Len(allCardsData) :
               /\ allCardsData[k].serial = k
               /\ allCardsData[k].bingoName = answered.name.text

\* A run of four cards labelled "B", the count typed with a leading blank.
C1_Witness ==
    /\ answered = [count |-> Typed(<<" ", "4">>), name |-> TypedName("B")]
    /\ Len(allCardsData) = 4
    /\ allCardsData[4].serial = 4

ColumnRange(col) ==
    CASE col = "B" -> 1..15 [] col = "I" -> 16..30 [] col = "N" -> 31..45
      [] col = "G" -> 46..60 [] col = "O" -> 61..75

ColumnSet == {"B", "I", "N", "G", "O"}

\* The positions of column col that hold drawn numbers.
NumberPositions(col) == IF col = "N" THEN {1, 2, 4, 5} ELSE 1..5

ValidCard(card) ==
    /\ \A col \in ColumnSet :
           LET cells == card.columns[col]
           IN  /\ DOMAIN cells = 0..5
               /\ cells[0] = Str(col)
               /\ \A p \in NumberPositions(col) :
                      /\ cells[p].isNum
                      /\ cells[p].num \in ColumnRange(col)
               /\ \A p, q \in NumberPositions(col) :
                      p # q => cells[p] # cells[q]
               /\ \A p \in 0..5 :
                      cells[p] = FreeMarker => (col = "N" /\ p = 3)
    /\ card.columns.N[3] = FreeMarker

\* C2: every generated card is structurally valid: position 0 of a column is
\* its letter; B, I, G and O hold 5 pairwise-distinct numbers of their range;
\* N holds the free marker at position 3 and 4 pairwise-distinct numbers of
\* 31-45 at positions 1, 2, 4, 5; the free marker appears nowhere else.
C2_EveryCardValid ==
    \A k \in 1..Len(allCardsData) : ValidCard(allCardsData[k])

\* A card for which the sampling loop had to reject a repeated number: the
\* stream starting at 0 with stride 1 draws 1 twice for column B.
C2_Witness ==
    /\ Len(allCardsData) >= 2
    /\ allCardsData[1].columns.B[1] = Num(1)
    /\ allCardsData[1].columns.B[2] = Num(2)
    /\ allCardsData[1].columns.N[3] = FreeMarker

(***************************************************************************)
(* Properties of the export.                                               *)
(***************************************************************************)
\* C3: exportToPDF called with no cards generated fails at once: it only shows
\* the alert; nothing is rendered or rasterized, no document is created or
\* saved, no progress is reported, the overlay stays hidden and the export
\* button stays enabled.
C3_EmptyExportDoesNothing ==
    [][(ExportToPDF /\ Len(allCardsData) = 0) =>
           /\ alertOpen'
           /\ UNCHANGED <<ex, ui, hideTimers>>
           /\ ui'.overlay = "none"
           /\ ~ui'.exportBtnDisabled]_vars

\* The alert of an export attempted before any card was generated.
C3_Witness ==
    /\ alertOpen
    /\ Len(allCardsData) = 0
    /\ ex = IdleExport
    /\ ui = InitUi

Images == ex.doc.images

ImageIndices == { Images[k].index : k \in 1..Len(Images) }

WarningIndices == { ex.warnings[k].index : k \in 1..Len(ex.warnings) }

\* The call ended through catch (error), with or without reaching showError.
EndedInCatch == ex.pc \in {"failed", "rejected"}

\* The errors that are raised outside the per-card try.
PipelineErrors == SaveErrors \cup {DestructureTypeError}

\* C4: a per-card failure does not stop the export.  Every card the loop has
\* gone past is either placed or logged as failed, never both; a run that
\* succeeds over N cards with k failed cards holds exactly N - k images and has
\* saved the PDF once; and a run ends in the catch only for an error raised
\* outside the per-card try.
C4_PerCardFailureDoesNotStop ==
    /\ ex.pc # "idle" =>
           /\ ImageIndices \cup WarningIndices = 0..(ex.i - 1)
           /\ ImageIndices \cap WarningIndices = {}
           /\ Len(Images) + Len(ex.warnings) = ex.i
    /\ ex.pc = "succeeded" =>
           /\ Len(Images) = ex.totalCards - Len(ex.warnings)
           /\ Len(ex.doc.saved) = 1
    /\ EndedInCatch => ex.caught \in PipelineErrors

\* 12 cards, the 5th fails in the rasterizer: 11 images, saved, success.
C4_Witness ==
    /\ ex.pc = "succeeded"
    /\ ex.totalCards = 12
    /\ ex.warnings = <<[index |-> 4, stage |-> "rasterize"]>>
    /\ Len(Images) = 11
    /\ Len(ex.doc.saved) = 1

\* C5: page overflow.  A card placed while y + 130 > pageHeight gets a new page
\* and the cursor (10, 10) before its image is added, so no image ever lies at
\* a y with y + 130 > pageHeight.
C5_PageOverflow ==
    /\ [](\A k \in 1..Len(Images) : Images[k].y + CardImageHeight <= PageHeight)
    /\ [][(/\ ex.pc = "rasterize"
           /\ Len(ex'.doc.images) = Len(ex.doc.images) + 1
           /\ ex.y + CardImageHeight > PageHeight) =>
              LET img == ex'.doc.images[Len(ex'.doc.images)]
              IN  /\ ex'.doc.pages = ex.doc.pages + 1
                  /\ img.page = ex'.doc.pages
                  /\ img.x = 10
                  /\ img.y = 10]_vars

\* The fifth image: first of page 2, at (10, 10), placed from the cursor
\* (10, 290) of page 1.
C5_Witness ==
    /\ Len(Images) >= 5
    /\ Images[4].page = 1
    /\ Images[4].y = 150
    /\ Images[5].page = 2
    /\ Images[5].x = 10
    /\ Images[5].y = 10

\* C6: with no failing card on the A4 page (210 x 297) the k-th card (k from 0)
\* lies on page floor(k/4) + 1 at x = 10 + 100 * (k mod 2),
\* y = 10 + 140 * (floor(k/2) mod 2), and a finished document of N cards has
\* ceil(N/4) pages; 3 cards give one page with images at (10,10), (110,10),
\* (10,150).
C6_LayoutWithoutFailures ==
    Len(ex.warnings) = 0 =>
        /\ \A k \in 0..(Len(Images) - 1) :
               /\ Images[k + 1].index = k
               /\ Images[k + 1].page = (k \div 4) + 1
               /\ Images[k + 1].x = 10 + 100 * (k % 2)
               /\ Images[k + 1].y = 10 + 140 * ((k \div 2) % 2)
        /\ ex.pc = "succeeded" => ex.doc.pages = (ex.totalCards + 3) \div 4
        /\ (ex.pc = "succeeded" /\ ex.totalCards = 3) =>
               /\ ex.doc.pages = 1
               /\ [k \in 1..3 |-> <<Images[k].x, Images[k].y>>] =
                      << <<10, 10>>, <<110, 10>>, <<10, 150>> >>

\* 12 cards, none failing: 3 pages, the last image at (110, 150) of page 3.
C6_Witness ==
    /\ ex.pc = "succeeded"
    /\ ex.totalCards = 12
    /\ Len(ex.warnings) = 0
    /\ ex.doc.pages = 3
    /\ Images[12] = [index |-> 11, page |-> 3, x |-> 110, y |-> 150]

\* The reports of the batch loop, in order.
BatchReports == SelectSeq(ex.progress, LAMBDA r : r.text = "batch")

\* C7: progress of a successful export of totalCards cards.  The batch loop
\* issues exactly ceil(totalCards / 10) reports, the j-th with the value
\* 10 + 70 * (10 * (j - 1) / totalCards); the reported percentages never
\* decrease, and the last one is 100.
C7_ProgressReports ==
    /\ \A j \in 1..(Len(ex.progress) - 1) :
           PctLeq(ex.progress[j].pct, ex.progress[j + 1].pct)
    /\ ex.pc = "succeeded" =>
           /\ Len(BatchReports) = (ex.totalCards + 9) \div 10
           /\ \A j \in 1..Len(BatchReports) :
                  BatchReports[j].pct.num * ex.totalCards =
                      (10 * ex.totalCards + 70 * 10 * (j - 1)) * BatchReports[j].pct.den
           /\ ex.progress[Len(ex.progress)].pct = Pct(100, 1)
           /\ ui.progressFill = Pct(100, 1)

\* A successful export of 12 cards: two batch reports, 10% and 10 + 700/12 %.
C7_Witness ==
    /\ ex.pc = "succeeded"
    /\ ex.totalCards = 12
    /\ Len(BatchReports) = 2
    /\ BatchReports[2].pct = Pct(820, 12)
    /\ Len(ex.progress) = 7

\* The steps of one call: ex.pc moves only along these edges.
PcEdges ==
    { <<"rasterize", "rasterize">>, <<"rasterize", "batchYield">>,
      <<"rasterize", "failed">>, <<"batchYield", "rasterize">>,
      <<"batchYield", "finalizeYield">>, <<"batchYield", "failed">>,
      <<"finalizeYield", "succeeded">>, <<"finalizeYield", "failed">>,
      <<"finalizeYield", "rejected">> }

\* A step that starts a call.
StartsExport == ex.pc \in {"idle", "succeeded", "failed", "rejected"} /\ ex'.pc = "rasterize"

\* C8: the export state machine.  Cards are attempted in strictly increasing
\* index order, each once; the call pauses after every batch; it finalizes only
\* after the last batch and succeeds only after finalizing with every card
\* attempted; it never shows both the success and the failure state; and it
\* ends in the catch only for an error raised outside the per-card try.
C8_ExportStateMachine ==
    /\ [](/\ \A k \in 1..Len(ex.rendered) : ex.rendered[k].index = k - 1
          /\ ex.pc = "rasterize" => Len(ex.rendered) = ex.i + 1
          /\ ex.pc \in {"finalizeYield", "succeeded"} =>
                 /\ Len(ex.rendered) = ex.totalCards
                 /\ ex.batchStart >= ex.totalCards
          /\ ex.pc = "succeeded" =>
                 /\ Len(ex.doc.saved) = 1
                 /\ ui.successMessage = "block"
                 /\ ui.errorMessage = "none"
          /\ EndedInCatch =>
                 /\ ui.successMessage = "none"
                 /\ Len(ex.doc.saved) = 0
                 /\ ex.caught \notin {CardError, NoError}
          /\ ~(ui.successMessage = "block" /\ ui.errorMessage = "block"))
    /\ [][\/ ex'.pc = ex.pc /\ ex' = ex
          \/ StartsExport
          \/ /\ <<ex.pc, ex'.pc>> \in PcEdges
             /\ ex'.totalCards = ex.totalCards
             /\ (ex.pc = "rasterize" /\ ex'.pc = "rasterize") =>
                    /\ ex'.i = ex.i + 1
                    /\ ex'.batchStart = ex.batchStart
                    /\ ex'.i % BatchSize # 0
             /\ (ex.pc = "rasterize" /\ ex'.pc = "batchYield") =>
                    ex'.i = Min(ex.batchStart + BatchSize, ex.totalCards)
             /\ (ex.pc = "batchYield" /\ ex'.pc = "rasterize") =>
                    /\ ex'.batchStart = ex.batchStart + BatchSize
                    /\ ex'.i = ex'.batchStart]_vars

\* A successful export of 12 cards in which two cards failed: every card was
\* attempted, in order, across two batches.
C8_Witness ==
    /\ ex.pc = "succeeded"
    /\ ex.totalCards = 12
    /\ ex.batchStart = 20
    /\ Len(ex.rendered) = 12
    /\ Len(ex.warnings) = 2
    /\ ui.successMessage = "block"

\* generateCards was last given a count that does not parse to a positive
\* integer, or a label that is empty or cancelled.
InvalidAnswers(a) == ~PositiveCount(a.count) \/ ~NonEmptyLabel(a.name)

\* C9: invalid generation input aborts generateCards with no state mutated:
\* allCardsData, the displayed cards and the export file name are the same
\* after the call as before it.
C9_InvalidInputMutatesNothing ==
    [][InvalidAnswers(answered') =>
           UNCHANGED <<allCardsData, cardContainer, fileName>>]_vars

\* C10: the temporary render container is created once per export call and is
\* out of the document when the call has ended, on every path.
C10_ContainerRemovedAtEnd ==
    /\ ex.pc # "idle" => ex.tempContainer.created = 1
    /\ ex.pc \in {"succeeded", "failed", "rejected"} => ~ex.tempContainer.inBody

\* C11: on a pipeline-level failure the export stops where it is, no document
\* has been saved, and the failure state is on display until the timer that
\* showError started hides the overlay.
C11_PipelineFailureShownAndDismissed ==
    EndedInCatch =>
        /\ Len(ex.doc.saved) = 0
        /\ Len(ex.rendered) <= ex.totalCards
        /\ ui.errorMessage = "block"
        /\ ui.loadingText = "Error"
        /\ \/ ui.overlay = "flex" /\ hideTimers = 1
           \/ ui.overlay = "none" /\ hideTimers = 0 /\ ~ui.exportBtnDisabled

\* A call of exportToPDF is suspended at one of its awaits.
InFlight == ex.pc \in {"rasterize", "batchYield", "finalizeYield"}

\* C12: no two exports are in flight at once.  The export button is disabled
\* while a call is in flight and while its dismissal timer is pending; a call
\* starts only when none is in flight and no timer of an earlier one is
\* pending; and the button is enabled again only by the timer of the call that
\* ended in success or failure, of which there is never more than one.
C12_NoConcurrentExports ==
    /\ []((InFlight \/ hideTimers > 0) => ui.exportBtnDisabled)
    /\ [](hideTimers <= 1)
    /\ [][(ExportToPDF /\ Len(allCardsData) # 0) =>
              (~InFlight /\ hideTimers = 0)]_vars
    /\ [][(ui.exportBtnDisabled /\ ~ui'.exportBtnDisabled) =>
              /\ ex.pc \in {"succeeded", "failed"}
              /\ ex' = ex
              /\ hideTimers = 1
              /\ hideTimers' = 0]_vars

\* A failed export whose timer has hidden the overlay and enabled the button.
C12_Witness ==
    /\ ex.pc = "failed"
    /\ ui.errorMessage = "block"
    /\ ui.overlay = "none"
    /\ ~ui.exportBtnDisabled
    /\ hideTimers = 0

\* C13: the export never suspends in the middle of a card: a handler that is
\* not the export itself runs during an export only at the pause after a batch
\* or at the pause before finalizing.
C13_NoSuspensionMidCard ==
    [][(InFlight /\ ex' = ex) => ex.pc \in {"batchYield", "finalizeYield"}]_vars

\* C14: the batch is owned by the export while it runs: the i-th card rendered
\* is the i-th card of the batch the export was started over, for every i in
\* 1..N, whatever generateCards does at a suspension point of the export.
C14_BatchOwnedByExport ==
    /\ \A k \in 1..Len(ex.rendered) : ex.rendered[k].card = ex.batch[k]
    /\ ex.pc \in {"finalizeYield", "succeeded"} => Len(ex.rendered) = Len(ex.batch)

\* C15: the saved file is named {label}_bingo_cards_{count}tarjetas.pdf with
\* the label and the count of the generation run whose cards were exported.
C15_FileNamedAfterExportedRun ==
    \A k \in 1..Len(ex.doc.saved) :
        ex.doc.saved[k] = PdfFileName(ex.batch[1].bingoName, Len(ex.batch))

\* C16: the staging container holds at most one card element at any time: the
\* card being rasterized while the call waits for html2canvas, and nothing at
\* the pause after a batch, at the pause before saving and after the call; the
\* element of a card is removed before the next card is started, whether the
\* card was placed or failed.
C16_StagingHoldsOneCard ==
    LET children == ex.tempContainer.children
    IN  /\ Len(children) <= 1
        /\ ex.pc = "rasterize" =>
               children = <<ex.rendered[Len(ex.rendered)].card>>
        /\ ex.pc # "rasterize" => children = <<>>

\* The fourth card staged alone, after one card was placed and two failed, one
\* in the rasterizer and one when placed.
C16_Witness ==
    /\ ex.pc = "rasterize"
    /\ ex.i = 3
    /\ Len(ex.tempContainer.children) = 1
    /\ Len(Images) = 1
    /\ { ex.warnings[k].stage : k \in 1..Len(ex.warnings) } = {"rasterize", "place"}

\* The error signals memory or string-length exhaustion.
SignalsExhaustion(error) ==
    /\ error.hasMessage
    /\ \/ MessageIncludes(error.message, <<"string", "length">>)
       \/ MessageIncludes(error.message, <<"memory">>)

\* C17: a pipeline-level failure shows the failure state, with the volume
\* message exactly when the error signals memory or string-length exhaustion
\* and with the generic message in every other case.
C17_FailureClassification ==
    EndedInCatch =>
        /\ ui.errorMessage = "block"
        /\ ui.loadingText = "Error"
        /\ ui.loadingSubtext =
               IF SignalsExhaustion(ex.caught) THEN "too many cards" ELSE "generic"

\* The number of values in [min, max].
SamplerSpan == sampler.max - sampler.min + 1

\* C18: getRandomNumbers(min, max, count) returns, under fair random choice,
\* whenever count <= max - min + 1, and then with exactly count pairwise
\* distinct values of [min, max]; it never returns when count > max - min + 1;
\* rejected draws do not end the loop, however many there are.
C18_SamplerTerminates ==
    /\ [](sampler.pc = "returned" =>
              /\ Len(sampler.numbers) = sampler.count
              /\ \A k \in 1..Len(sampler.numbers) :
                     sampler.numbers[k] \in sampler.min..sampler.max
              /\ \A j, k \in 1..Len(sampler.numbers) :
                     j # k => sampler.numbers[j] # sampler.numbers[k])
    /\ [](sampler.count > SamplerSpan => sampler.pc # "returned")
    /\ [][(sampler.pc = "loop" /\ sampler'.rejected > sampler.rejected) =>
              sampler'.pc = "loop"]_vars
    /\ (sampler.pc = "loop" /\ sampler.count <= SamplerSpan) ~>
           (sampler.pc = "returned")

\* A call for all three values of 16..18 that returned after MaxRejected or more
\* rejected draws.
C18_Witness ==
    /\ sampler.pc = "returned"
    /\ sampler.min = 16
    /\ sampler.count = 3
    /\ Len(sampler.numbers) = 3
    /\ sampler.rejected = MaxRejected

\* C19: the cards of one generation run have unique content: no two cards
\* made by the same generateCards call hold the same numbers in all five
\* columns.
C19_UniqueContent ==
    \A j, k \in 1..Len(allCardsData) :
        j # k => allCardsData[j].columns # allCardsData[k].columns

\* The count of the last generateCards call, when its answers were valid.
AnsweredCount == ParseInt(answered.count).val

\* C20: after generating N cards the page shows exactly min(50, N) card
\* elements, the first ones in serial order, allCardsData holds all N, and the
\* limit notice is visible exactly when N > 50, and then names N and 50.
C20_DisplayLimit ==
    ~InvalidAnswers(answered) =>
        /\ Len(allCardsData) = AnsweredCount
        /\ Len(cardContainer) = IF AnsweredCount < 50 THEN AnsweredCount ELSE 50
        /\ \A k \in 1..Len(cardContainer) :
               /\ cardContainer[k] = allCardsData[k]
               /\ cardContainer[k].serial = k
        /\ (limitMessage.display = "block") <=> (AnsweredCount > 50)
        /\ limitMessage.display = "block" =>
               (limitMessage.total = AnsweredCount /\ limitMessage.shown = 50)

\* 51 cards generated: 50 on the page, the notice shown.
C20_Witness ==
    /\ Len(allCardsData) = 51
    /\ Len(cardContainer) = 50
    /\ limitMessage = [display |-> "block", total |-> 51, shown |-> 50]

(***************************************************************************)
(* Properties of the tombola game and of the original game.                *)
(***************************************************************************)
\* C21: within one game (since the page was loaded or the game was last
\* reset) processDrawnNumber is never given the same number twice.
C21_NoNumberProcessedTwice ==
    tb.loaded =>
        \A j, k \in 1..Len(tb.processed) :
            j # k => tb.processed[j] # tb.processed[k]

\* C22: a confirmed resetGame leaves every number available, the history
\* empty, currentNumber null, no cell marked, auto-marked or set in the
\* pattern, auto-draw inactive with its interval cleared and the tombola
\* button enabled; a declined one changes nothing.
C22_ResetRestoresInitialState ==
    [][/\ ResetGameClick(TRUE) =>
              /\ tb'.availableNumbers = AllNumbers
              /\ tb'.numbersLeft = PoolSize
              /\ tb'.lastNumbers = <<>>
              /\ tb'.currentNumber = Null
              /\ tb'.marked = {}
              /\ tb'.autoMarked = {}
              /\ tb'.pattern = {}
              /\ ~tb'.isAutoDrawActive
              /\ ~tb'.isAutoDrawPaused
              /\ ~tb'.autoDrawInterval
              /\ ~tb'.btnDisabled
       /\ ResetGameClick(FALSE) => UNCHANGED tb]_vars

\* The game was reset while a draw was in flight: only then is the tombola
\* button enabled, outside auto-draw, with a draw callback pending.
C22_Witness ==
    /\ tb.loaded
    /\ Len(tb.drawTimeouts) > 0
    /\ ~tb.btnDisabled
    /\ ~tb.isAutoDrawActive
    /\ tb.availableNumbers = AllNumbers
    /\ tb.autoMarked = {}

\* C23: lastNumbers never holds more than 5 entries on the tombola page nor
\* more than 3 on the original page, and an entry added to a full history
\* goes first and pushes out the oldest (last) one.
C23_HistoryBounded ==
    /\ [](tb.loaded => Len(tb.lastNumbers) <= 5)
    /\ [](orig.loaded => Len(orig.lastNumbers) <= 3)
    /\ [][(tb.loaded /\ Len(tb.lastNumbers) = 5
               /\ Len(tb'.lastNumbers) = 5
               /\ tb'.lastNumbers # tb.lastNumbers) =>
              SubSeq(tb'.lastNumbers, 2, 5) = SubSeq(tb.lastNumbers, 1, 4)]_vars
    /\ [][(orig.loaded /\ Len(orig.lastNumbers) = 3
               /\ Len(orig'.lastNumbers) = 3
               /\ orig'.lastNumbers # orig.lastNumbers) =>
              SubSeq(orig'.lastNumbers, 2, 3) =
                  SubSeq(orig.lastNumbers, 1, 2)]_vars

\* The tombola page holds a full history from which a number that is still
\* marked by hand was dropped.
C23_Witness ==
    /\ tb.loaded
    /\ Len(tb.lastNumbers) = 5
    /\ \E number \in tb.marked \ tb.autoMarked :
           \A k \in 1..5 : tb.lastNumbers[k] # number

\* C24: a number the tombola marked is marked, and stays so until a
\* confirmed resetGame: a click on its cell changes nothing (marks and
\* history included) and cleanTable leaves it marked.
C24_AutoMarkedStaysMarked ==
    /\ [](tb.loaded => tb.autoMarked \subseteq tb.marked)
    /\ [][tb.loaded =>
              \A number \in tb.autoMarked :
                  /\ (number \notin tb'.marked \/ number \notin tb'.autoMarked)
                         => ResetGameClick(TRUE)
                  /\ NumberCellClick(number) => UNCHANGED tb
                  /\ CleanClick => number \in tb'.marked]_vars

\* Number 1 was marked by hand, then drawn: its cell is auto-marked and the
\* history holds it twice.
C24_Witness ==
    /\ tb.loaded
    /\ 1 \in tb.autoMarked
    /\ tb.lastNumbers = <<1, 1>>
    /\ tb.processed = <<1>>

\* C25: cleanTable of the tombola version leaves marked exactly the
\* auto-marked numbers and no pattern cell set; availableNumbers,
\* currentNumber, the auto-draw flags and the interval are unchanged.
C25_CleanTableClearsManualState ==
    [][CleanClick =>
           /\ tb'.marked = tb.autoMarked
           /\ tb'.autoMarked = tb.autoMarked
           /\ tb'.pattern = {}
           /\ tb'.availableNumbers = tb.availableNumbers
           /\ tb'.currentNumber = tb.currentNumber
           /\ tb'.isAutoDrawActive = tb.isAutoDrawActive
           /\ tb'.isAutoDrawPaused = tb.isAutoDrawPaused
           /\ tb'.autoDrawInterval = tb.autoDrawInterval]_vars

\* A number of the history is not marked any more: cleanTable removed a
\* manual mark (a click that unmarks also removes the history entry), and it
\* left a drawn number marked.
C25_Witness ==
    /\ tb.loaded
    /\ tb.autoMarked # {}
    /\ tb.marked = tb.autoMarked
    /\ \E k \in 1..Len(tb.lastNumbers) : tb.lastNumbers[k] \notin tb.marked

\* C26: while auto-draw is active the tombola button is disabled, and a step
\* that starts a draw is a tick of the interval.
C26_ManualAndAutoExclusive ==
    /\ []((tb.loaded /\ tb.isAutoDrawActive) => tb.btnDisabled)
    /\ [][(tb.loaded /\ tb.isAutoDrawActive
               /\ Len(tb'.drawTimeouts) > Len(tb.drawTimeouts)) =>
              IntervalTick]_vars

\* Auto-draw is active, one number was processed and its modal closed, and
\* the next draw is in flight.
C26_Witness ==
    /\ tb.loaded
    /\ tb.isAutoDrawActive
    /\ Len(tb.processed) = 1
    /\ tb.closeTimeouts = <<>>
    /\ Len(tb.drawTimeouts) = 1

\* C27: a click on the tombola button when no number remains leaves
\* availableNumbers, the history and the marks unchanged, starts no modal
\* and no timeout, and leaves the button disabled as "Juego Completo"; the
\* button stays so until a confirmed resetGame.
C27_EmptyDrawDrawsNothing ==
    /\ [][(tb.loaded /\ Len(tb.availableNumbers) = 0 /\ TombolaClick) =>
              /\ tb'.availableNumbers = tb.availableNumbers
              /\ tb'.lastNumbers = tb.lastNumbers
              /\ tb'.marked = tb.marked
              /\ tb'.autoMarked = tb.autoMarked
              /\ tb'.modal = tb.modal
              /\ tb'.drawTimeouts = tb.drawTimeouts
              /\ tb'.closeTimeouts = tb.closeTimeouts
              /\ tb'.btnDisabled
              /\ tb'.btnText = "Juego Completo"]_vars
    /\ [][(tb.loaded /\ tb.btnText = "Juego Completo"
               /\ ~ResetGameClick(TRUE)) =>
              (tb'.btnDisabled /\ tb'.btnText = "Juego Completo")]_vars

\* C28: an export in flight eventually shows the success or the failure
\* display, and eventually the overlay is hidden and the export button is
\* enabled again.
C28_ExportEventuallyFinishes ==
    /\ InFlight ~>
           \/ ex.pc = "succeeded" /\ ui.successMessage = "block"
           \/ ex.pc = "failed" /\ ui.errorMessage = "block"
    /\ InFlight ~>
           (~InFlight /\ ui.overlay = "none" /\ ~ui.exportBtnDisabled)

\* C29: once every number was drawn while auto-draw is active, auto-draw
\* eventually is inactive with its interval cleared.
C29_AutoDrawStopsWhenExhausted ==
    (tb.loaded /\ tb.isAutoDrawActive /\ Len(tb.availableNumbers) = 0) ~>
        (~tb.isAutoDrawActive /\ ~tb.autoDrawInterval)

\* C30: from a paused state no step starts a draw and a tick changes
\* nothing; at most one draw callback is pending while paused;
\* pauseAutoDraw changes nothing unless auto-draw is active and not paused,
\* resumeAutoDraw nothing unless it is active and paused.
C30_PauseStopsNewDraws ==
    /\ [][(tb.loaded /\ tb.isAutoDrawPaused) =>
              /\ Len(tb'.drawTimeouts) <= Len(tb.drawTimeouts)
              /\ IntervalTick => UNCHANGED tb]_vars
    /\ []((tb.loaded /\ tb.isAutoDrawPaused) => Len(tb.drawTimeouts) <= 1)
    /\ [][(PauseClick /\ ~(tb.isAutoDrawActive /\ ~tb.isAutoDrawPaused)) =>
              UNCHANGED tb]_vars
    /\ [][(ResumeClick /\ ~(tb.isAutoDrawActive /\ tb.isAutoDrawPaused)) =>
              UNCHANGED tb]_vars

\* C31: a saved document has no blank page: each of its pages holds at least
\* one card image, whichever cards failed in the rasterize or the place step.
C31_NoBlankPage ==
    ex.pc = "succeeded" =>
        \A page \in 1..ex.doc.pages :
            \E k \in 1..Len(Images) : Images[k].page = page

====
